---- MODULE Spec2Model ----
(***************************************************************************)
(* Model of the changeFine callable of the fine-tracking backend           *)
(* (functions/src/regularFunctions/ChangeFineFunction.ts).                 *)
(*                                                                         *)
(* The remote store is a tree of key paths; the model keeps the part the   *)
(* function touches: <clubComponent>/<clubId>/fines/<fineId> and the       *)
(* statistics list of each club.  An invocation is a constructor call      *)
(* (parameter parsing) followed by executeFunction, whose awaited I/O      *)
(* calls are the steps of the model.                                       *)
(***************************************************************************)
EXTENDS Integers, Sequences, FiniteSets, TLC

(***************************************************************************)
(* Bounds of the model.                                                    *)
(***************************************************************************)
MaxTime == 2
MaxInvocations == 2

Timestamps == 1..MaxTime
ClubIds == {"c1", "c2"}
FineIds == {"f1", "f2"}
Actors == {"a1", "a2"}
Payloads == {"v1", "v2"}
ClubLevels == {"regular"}
ChangeTypes == {"update", "delete"}

\* The invocation slots.  The sequential specification uses slot 1 only.
Slots == {1, 2}
SeqSlots == {1}

(***************************************************************************)
(* Values.                                                                 *)
(***************************************************************************)
\* A parsed Fine: its id, its domain fields (payload) and the ordering
\* metadata the request carries with it.
Fines == [id : FineIds, payload : Payloads, timestamp : Timestamps, actorId : Actors]

\* What a key path of the store can hold.
Absent == [kind |-> "Absent"]
Null == [kind |-> "Null"]
NoParameters == [kind |-> "None"]

\* fine.objectWithoutId: the value stored at the fine's key path.
objectWithoutId(fine) ==
    [kind |-> "Active", payload |-> fine.payload,
     timestamp |-> fine.timestamp, actorId |-> fine.actorId]

\* fine.object: the fine with its id, as saved in the statistic.
object(fine) ==
    [kind |-> "Fine", id |-> fine.id, payload |-> fine.payload,
     timestamp |-> fine.timestamp, actorId |-> fine.actorId]

\* Fine.fromObject(fineSnapshot.val()).object: the stored fields read back.
fromObject(val) ==
    [kind |-> "Fine", payload |-> val.payload,
     timestamp |-> val.timestamp, actorId |-> val.actorId]

\* undefinedAsNull(previousFine?.object)
undefinedAsNull(previousFine) ==
    IF previousFine = Null THEN Null ELSE previousFine

\* clubLevel.getClubComponent(): the root of the club's key paths.
getClubComponent(clubLevel) ==
    IF clubLevel = "regular" THEN "clubs" ELSE "debugClubs"

\* `${clubLevel.getClubComponent()}/${clubId.guidString}`
clubPath(parameters) ==
    <<getClubComponent(parameters.clubLevel), parameters.clubId>>

ClubPaths == {<<getClubComponent(l), c>> : l \in ClubLevels, c \in ClubIds}

(***************************************************************************)
(* Requests.                                                               *)
(***************************************************************************)
\* The fields parseParameters reads, in the order it reads them.
ParameterOrder == <<"privateKey", "clubLevel", "clubId", "changeType", "fine">>

\* The untyped request data: the values of the fields and the set of fields
\* that are missing or malformed.
BaseData ==
    [bad |-> {}, privateKey |-> "valid", clubLevel |-> "regular", clubId |-> "c1",
     changeType |-> "update",
     fine |-> [id |-> "f1", payload |-> "v2", timestamp |-> 1, actorId |-> "a2"]]

ValidData ==
    {[bad |-> {}, privateKey |-> "valid", clubLevel |-> l, clubId |-> c,
      changeType |-> t, fine |-> f] :
        l \in ClubLevels, c \in ClubIds, t \in ChangeTypes, f \in Fines}

InvalidData ==
    {[BaseData EXCEPT !.bad = {ParameterOrder[k]}] : k \in 1..Len(ParameterOrder)}
        \cup {[BaseData EXCEPT !.bad = {"clubId", "fine"}]}

WrongKeyData == {[BaseData EXCEPT !.privateKey = "wrong"]}

Data == ValidData \cup InvalidData \cup WrongKeyData

\* The calls made: the request data and whether the caller is authenticated.
Requests ==
    {[data |-> d, auth |-> TRUE] : d \in Data}
        \cup {[data |-> BaseData, auth |-> FALSE]}

\* The first field, in parsing order, that does not parse; 0 when all do.
RECURSIVE firstBad(_, _)
firstBad(data, k) ==
    IF k > Len(ParameterOrder) THEN 0
    ELSE IF ParameterOrder[k] \in data.bad THEN k
    ELSE firstBad(data, k + 1)

\* ChangeFineFunction.parseParameters
parseParameters(data) ==
    IF firstBad(data, 1) # 0
    THEN [kind |-> "Error", code |-> "invalid-argument",
          field |-> ParameterOrder[firstBad(data, 1)]]
    ELSE [kind |-> "Parameters", privateKey |-> data.privateKey,
          clubLevel |-> data.clubLevel, clubId |-> data.clubId,
          changeType |-> data.changeType, fine |-> data.fine]

(***************************************************************************)
(* State.                                                                  *)
(***************************************************************************)
VARIABLES
    store,      \* store[clubPath][fineId]: value at <clubPath>/fines/<fineId>
    statistics, \* statistics[clubPath]: the statistic events saved, in order
    inv,        \* inv[i]: the invocation running in slot i
    last,       \* the invocation that completed before the current one
    calls,      \* number of invocations made
    outcome,    \* the last call of another callable: its data and what it returned
    clubs,      \* clubs[clubId]: the club properties stored under the club id
    generators  \* generators[g]: the PseudoRandom instance g

vars == <<store, statistics, inv, last, calls, outcome, clubs, generators>>

\* The state that changeFine leaves alone.
otherVars == <<outcome, clubs, generators>>

\* No call of another callable has been made.
NoOutcome == [kind |-> "None"]

\* No club is stored under a club id; no PseudoRandom has been constructed.
NoClub == [kind |-> "Absent"]
NoClubs == [c \in ClubIds |-> NoClub]
Generators == {1, 2}
NoGenerator == [kind |-> "None"]
NoGenerators == [g \in Generators |-> NoGenerator]

\* The fine the store holds before the first invocation.
SeedFine == [id |-> "f1", payload |-> "v1", timestamp |-> 1, actorId |-> "a1"]

InitStore ==
    [p \in ClubPaths |->
        [f \in FineIds |->
            IF p = <<"clubs", "c1">> /\ f = SeedFine.id
            THEN objectWithoutId(SeedFine) ELSE Absent]]

InitStatistics == [p \in ClubPaths |-> <<>>]

Idle ==
    [pc |-> "idle", data |-> BaseData, auth |-> FALSE, parameters |-> NoParameters,
     previousFine |-> Null, changedFine |-> Null, result |-> "none",
     storeBefore |-> InitStore, statisticsBefore |-> InitStatistics,
     otherWrite |-> "none"]

Init ==
    /\ store = InitStore
    /\ statistics = InitStatistics
    /\ inv = [i \in Slots |-> Idle]
    /\ last = Idle
    /\ calls = 0
    /\ outcome = NoOutcome
    /\ clubs = NoClubs
    /\ generators = NoGenerators

(***************************************************************************)
(* Collaborators outside ChangeFineFunction.ts.                            *)
(***************************************************************************)
\* checkPrerequirements(parameters, auth, clubId): the private key is valid
\* and the caller is authenticated.
prerequirementsMet(parameters, auth) ==
    parameters.privateKey = "valid" /\ auth

\* existsData(fineRef) / fineSnapshot.exists()
existsData(st, parameters) ==
    st[clubPath(parameters)][parameters.fine.id] # Absent

\* A statistic stored under the id of its fine: it takes the place of the
\* earlier statistic of that fine.
setStatisticOfFine(stats, path, statistic) ==
    [stats EXCEPT ![path] =
        Append(SelectSeq(@, LAMBDA e : e.changedFine.id # statistic.changedFine.id),
               statistic)]

\* saveStatistic(clubPath, statistic): the statistic is pushed under a new
\* key of the club's statistics list.
pushStatistic(stats, path, statistic) ==
    [stats EXCEPT ![path] = Append(@, statistic)]

(***************************************************************************)
(* The writes of ChangeFineFunction.                                       *)
(***************************************************************************)
\* A set that, like the removal, is made only where data exists.
setFineWhereExists(st, parameters) ==
    IF st[clubPath(parameters)][parameters.fine.id] # Absent
    THEN [st EXCEPT ![clubPath(parameters)][parameters.fine.id] =
              objectWithoutId(parameters.fine)]
    ELSE st

\* fineRef.set(this.parameters.fine?.objectWithoutId)
setFine(st, parameters) ==
    [st EXCEPT ![clubPath(parameters)][parameters.fine.id] =
        objectWithoutId(parameters.fine)]

\* A removal of the node that holds all fines of the club.
removeFinesOfClub(st, parameters) ==
    [st EXCEPT ![clubPath(parameters)] = [f \in FineIds |-> Absent]]

\* fineRef.remove()
removeFine(st, parameters) ==
    [st EXCEPT ![clubPath(parameters)][parameters.fine.id] = Absent]

\* A previous fine that is left at its initial null.
previousFineNotRead(st, parameters) == Null

\* executeFunction: previousFine, null unless fineSnapshot.exists().
previousFineRead(st, parameters) ==
    IF existsData(st, parameters)
    THEN fromObject(st[clubPath(parameters)][parameters.fine.id])
    ELSE Null

\* A constructor that keeps the raw fields when parsing fails.
constructedUnchecked(data) ==
    [pc |-> "checkPrerequirements",
     parameters |-> [kind |-> "Parameters", privateKey |-> data.privateKey,
                     clubLevel |-> data.clubLevel, clubId |-> data.clubId,
                     changeType |-> data.changeType, fine |-> data.fine],
     result |-> "none"]

\* What the constructor leaves behind: the parsed parameters, or the error
\* thrown by parseParameters, which ends the invocation.
constructed(data) ==
    LET parsed == parseParameters(data) IN
    IF parsed.kind = "Error"
    THEN [pc |-> "done", parameters |-> NoParameters, result |-> parsed.code]
    ELSE [pc |-> "checkPrerequirements", parameters |-> parsed, result |-> "none"]

(***************************************************************************)
(* Actions: one invocation of the callable in slot i.                      *)
(***************************************************************************)
\* new ChangeFineFunction(data), called with authentication state auth.
constructor(i, data, auth) ==
    /\ inv[i].pc \in {"idle", "done"}
    /\ calls < MaxInvocations
    /\ calls' = calls + 1
    /\ last' = IF inv[i].pc = "done" THEN inv[i] ELSE last
    /\ inv' = [inv EXCEPT ![i] =
                [pc |-> constructed(data).pc, data |-> data, auth |-> auth,
                 parameters |-> constructed(data).parameters,
                 previousFine |-> Null, changedFine |-> Null,
                 result |-> constructed(data).result,
                 storeBefore |-> store, statisticsBefore |-> statistics,
                 otherWrite |-> "none"]]
    /\ UNCHANGED <<store, statistics>>
    /\ UNCHANGED otherVars

\* An executeFunction that goes on to the store whatever the check says.
checkPrerequirementsSkipped(i) ==
    /\ inv[i].pc = "checkPrerequirements"
    /\ inv' = [inv EXCEPT ![i] = [@ EXCEPT !.pc = "getPreviousFine"]]
    /\ UNCHANGED <<store, statistics, last, calls>>
    /\ UNCHANGED otherVars

\* executeFunction: await checkPrerequirements(...)
checkPrerequirements(i) ==
    /\ inv[i].pc = "checkPrerequirements"
    /\ inv' = [inv EXCEPT ![i] =
                IF prerequirementsMet(inv[i].parameters, inv[i].auth)
                THEN [@ EXCEPT !.pc = "getPreviousFine"]
                ELSE [@ EXCEPT !.pc = "done", !.result = "permission-denied"]]
    /\ UNCHANGED <<store, statistics, last, calls>>
    /\ UNCHANGED otherVars

\* executeFunction: read the fine's key path and parse the previous fine.
getPreviousFine(i) ==
    /\ inv[i].pc = "getPreviousFine"
    /\ LET parameters == inv[i].parameters
       IN inv' = [inv EXCEPT ![i] =
                    [@ EXCEPT !.previousFine = previousFineRead(store, parameters),
                              !.pc = IF parameters.changeType = "delete"
                                     THEN "deleteItem" ELSE "updateItem"]]
    /\ UNCHANGED <<store, statistics, last, calls>>
    /\ UNCHANGED otherVars

\* A deleteItem that throws where there is no data to remove.
deleteItemThrowingWhereAbsent(i) ==
    /\ inv[i].pc = "deleteItem"
    /\ inv' = [inv EXCEPT ![i] =
                IF existsData(store, inv[i].parameters)
                THEN [@ EXCEPT !.pc = "remove"]
                ELSE [@ EXCEPT !.pc = "done", !.result = "unavailable"]]
    /\ UNCHANGED <<store, statistics, last, calls>>
    /\ UNCHANGED otherVars

\* deleteItem: await existsData(fineRef)
deleteItem(i) ==
    /\ inv[i].pc = "deleteItem"
    /\ inv' = [inv EXCEPT ![i] =
                IF existsData(store, inv[i].parameters)
                THEN [@ EXCEPT !.pc = "remove"]
                ELSE [@ EXCEPT !.pc = "saveStatistic",
                               !.changedFine =
                                   [kind |-> "Id", id |-> inv[i].parameters.fine.id]]]
    /\ UNCHANGED <<store, statistics, last, calls>>
    /\ UNCHANGED otherVars

\* History of the writes to a key path: inv[j].otherWrite is "afterRead" once
\* another invocation has written to the key path of invocation j after j
\* read it and before j's own write, and "beforeOwnWrite" once j has then
\* made its own write.
noteWrite(invs, i) ==
    [j \in Slots |->
        IF j = i
        THEN [invs[j] EXCEPT !.otherWrite =
                 IF @ = "afterRead" THEN "beforeOwnWrite" ELSE @]
        ELSE IF /\ invs[j].pc \in {"deleteItem", "remove", "updateItem"}
                /\ clubPath(invs[j].parameters) = clubPath(invs[i].parameters)
                /\ invs[j].parameters.fine.id = invs[i].parameters.fine.id
        THEN [invs[j] EXCEPT !.otherWrite = "afterRead"]
        ELSE invs[j]]

\* deleteItem: await fineRef.remove(...)
remove(i) ==
    /\ inv[i].pc = "remove"
    /\ store' = removeFine(store, inv[i].parameters)
    /\ inv' = noteWrite([inv EXCEPT ![i] =
                [@ EXCEPT !.pc = "saveStatistic",
                          !.changedFine =
                              [kind |-> "Id", id |-> inv[i].parameters.fine.id]]], i)
    /\ UNCHANGED <<statistics, last, calls>>
    /\ UNCHANGED otherVars

\* updateItem: await fineRef.set(...)
updateItem(i) ==
    /\ inv[i].pc = "updateItem"
    /\ store' = setFine(store, inv[i].parameters)
    /\ inv' = noteWrite([inv EXCEPT ![i] =
                [@ EXCEPT !.pc = "saveStatistic",
                          !.changedFine = object(inv[i].parameters.fine)]], i)
    /\ UNCHANGED <<statistics, last, calls>>
    /\ UNCHANGED otherVars

\* executeFunction: await saveStatistic(clubPath, {name, properties})
saveStatistic(i) ==
    /\ inv[i].pc = "saveStatistic"
    /\ statistics' = pushStatistic(statistics, clubPath(inv[i].parameters),
                        [name |-> "changeFine",
                         previousFine |-> undefinedAsNull(inv[i].previousFine),
                         changedFine |-> inv[i].changedFine])
    /\ inv' = [inv EXCEPT ![i] = [@ EXCEPT !.pc = "done", !.result = "success"]]
    /\ UNCHANGED <<store, last, calls>>
    /\ UNCHANGED otherVars

\* One step of the invocation in slot i.
Step(i) ==
    \/ \E r \in Requests : constructor(i, r.data, r.auth)
    \/ checkPrerequirements(i)
    \/ getPreviousFine(i)
    \/ deleteItem(i)
    \/ remove(i)
    \/ updateItem(i)
    \/ saveStatistic(i)

\* Invocations arrive one after the other.
Next == \E i \in SeqSlots : Step(i)

Spec == Init /\ [][Next]_vars

(***************************************************************************)
(* Vocabulary of the properties.                                           *)
(***************************************************************************)
\* The invocation in slot i has returned.
Done(i) == inv[i].pc = "done"

\* The invocation in slot i parsed its parameters.
Parsed(i) == inv[i].pc # "idle" /\ inv[i].parameters # NoParameters

\* The invocation in slot i ran to its end with the given change type.
Succeeded(i, changeType) ==
    /\ Done(i)
    /\ Parsed(i)
    /\ inv[i].result = "success"
    /\ inv[i].parameters.changeType = changeType

\* The value at the fine's key path when the invocation was called, and now.
Before(i) ==
    inv[i].storeBefore[clubPath(inv[i].parameters)][inv[i].parameters.fine.id]
After(i) ==
    store[clubPath(inv[i].parameters)][inv[i].parameters.fine.id]

\* The tombstone the specification describes for a deletion with the
\* metadata of the given fine.
Tombstone(fine) ==
    [kind |-> "Tombstone", timestamp |-> fine.timestamp, actorId |-> fine.actorId]

\* The statistic events the invocation in slot i added to its club's list.
Appended(i) ==
    LET path == clubPath(inv[i].parameters)
    IN SubSeq(statistics[path], Len(inv[i].statisticsBefore[path]) + 1,
              Len(statistics[path]))

\* The previous invocation completed a change of the given type on the key
\* path the invocation in slot i works on.
FollowsOnSameKey(i, changeType) ==
    /\ last.pc = "done"
    /\ last.parameters # NoParameters
    /\ last.result = "success"
    /\ last.parameters.changeType = changeType
    /\ Parsed(i)
    /\ clubPath(last.parameters) = clubPath(inv[i].parameters)
    /\ last.parameters.fine.id = inv[i].parameters.fine.id

\* The value at that key path before the previous invocation.
BeforeLast ==
    last.storeBefore[clubPath(last.parameters)][last.parameters.fine.id]

\* A statistic value describes a stored value.
Describes(statisticValue, stored) ==
    CASE stored.kind = "Absent" -> statisticValue = Null
      [] stored.kind = "Active" ->
            /\ statisticValue.kind = "Fine"
            /\ statisticValue.payload = stored.payload
            /\ statisticValue.timestamp = stored.timestamp
            /\ statisticValue.actorId = stored.actorId
      [] OTHER -> FALSE

(***************************************************************************)
(* C1.  Newer-timestamp rule.                                              *)
(***************************************************************************)
\* C1: for a key path that holds an Active value with metadata m, a changeFine
\* invocation ('update' or 'delete') with metadata m' changes the stored
\* value if and only if m'.timestamp is strictly newer than m.timestamp.
C1_ChangesIffNewer ==
    \A i \in Slots :
        (Done(i) /\ Parsed(i) /\ inv[i].result = "success"
            /\ Before(i).kind = "Active")
        => ((After(i) # Before(i))
                <=> (inv[i].parameters.fine.timestamp > Before(i).timestamp))

(***************************************************************************)
(* C2.  First write.                                                       *)
(***************************************************************************)
\* C2: when nothing is stored at the fine's key path, an 'update' that passes
\* the prerequisite check is accepted whatever its metadata and value: it
\* succeeds and the key path then holds exactly the submitted value and
\* metadata, under the fine's id.
C2_FirstWriteAccepted ==
    \A i \in Slots :
        (Done(i) /\ Parsed(i)
            /\ prerequirementsMet(inv[i].parameters, inv[i].auth)
            /\ inv[i].parameters.changeType = "update"
            /\ Before(i) = Absent)
        => /\ inv[i].result = "success"
           /\ After(i) = objectWithoutId(inv[i].parameters.fine)

\* C2 witness: an update of an empty key path has completed.
C2_Witness ==
    \E i \in Slots : Succeeded(i, "update") /\ Before(i) = Absent

(***************************************************************************)
(* C3, C4.  Arrival order of two updates.                                  *)
(***************************************************************************)
\* The fine of the two with the greater timestamp.
NewerOf(a, b) == IF a.timestamp > b.timestamp THEN a ELSE b

\* C3: two updates of one fine with timestamps t1 < t2, run one after the
\* other in either arrival order on a key path that held nothing newer, end
\* with the stored value of the t2 update.
C3_LaterTimestampWins ==
    \A i \in Slots :
        (Succeeded(i, "update") /\ FollowsOnSameKey(i, "update")
            /\ last.parameters.fine.timestamp # inv[i].parameters.fine.timestamp
            /\ BeforeLast = Absent)
        => After(i) = objectWithoutId(NewerOf(last.parameters.fine,
                                              inv[i].parameters.fine))

\* The value at the key path had the two updates arrived in the other order.
OtherOrder(i) ==
    setFine(setFine(last.storeBefore, inv[i].parameters),
            last.parameters)[clubPath(inv[i].parameters)][inv[i].parameters.fine.id]

\* C4: two updates of one fine with equal timestamps and different actor
\* ids end with the same stored value whichever is executed first.
C4_TieBreakIsOrderIndependent ==
    \A i \in Slots :
        (Succeeded(i, "update") /\ FollowsOnSameKey(i, "update")
            /\ last.parameters.fine.timestamp = inv[i].parameters.fine.timestamp
            /\ last.parameters.fine.actorId # inv[i].parameters.fine.actorId)
        => After(i) = OtherOrder(i)

(***************************************************************************)
(* C5.  Stale updates.                                                     *)
(***************************************************************************)
\* The invocation in slot i is an update whose timestamp is not newer than
\* that of the value stored when it was called.
StaleUpdate(i) ==
    /\ Parsed(i)
    /\ prerequirementsMet(inv[i].parameters, inv[i].auth)
    /\ inv[i].parameters.changeType = "update"
    /\ Before(i).kind = "Active"
    /\ inv[i].parameters.fine.timestamp <= Before(i).timestamp

\* C5: a stale update leaves the value at the key path unchanged and still
\* returns success.
C5_StaleUpdateDiscarded ==
    \A i \in Slots :
        (Done(i) /\ StaleUpdate(i))
        => (After(i) = Before(i) /\ inv[i].result = "success")

(***************************************************************************)
(* C6, C7.  Tombstones.                                                    *)
(***************************************************************************)
\* C6: after an accepted 'delete' with metadata m on an Active fine the key
\* path holds a Tombstone carrying m's timestamp and actor id.
C6_DeleteLeavesTombstone ==
    \A i \in Slots :
        (Succeeded(i, "delete") /\ Before(i).kind = "Active"
            /\ inv[i].parameters.fine.timestamp > Before(i).timestamp)
        => After(i) = Tombstone(inv[i].parameters.fine)

\* C7: after a fine was deleted at timestamp t, an update with timestamp < t
\* is rejected and the key path stays a Tombstone, and an update with
\* timestamp > t makes it Active again with the update's value.
C7_TombstonePermanence ==
    \A i \in Slots :
        (Succeeded(i, "update") /\ FollowsOnSameKey(i, "delete")
            /\ BeforeLast.kind = "Active"
            /\ last.parameters.fine.timestamp > BeforeLast.timestamp)
        => /\ (inv[i].parameters.fine.timestamp < last.parameters.fine.timestamp
                  => After(i) = Tombstone(last.parameters.fine))
           /\ (inv[i].parameters.fine.timestamp > last.parameters.fine.timestamp
                  => After(i) = objectWithoutId(inv[i].parameters.fine))

C9_NoStatisticWhenDiscarded ==
    \A i \in Slots :
        (Done(i) /\ (StaleUpdate(i) \/ parseParameters(inv[i].data).kind = "Error"))
        => statistics = inv[i].statisticsBefore

(***************************************************************************)
(* C10.  Validation errors.                                                *)
(***************************************************************************)
\* C10: an invocation whose parameters fail to parse fails with
\* 'invalid-argument' without reading or writing the store and without
\* saving a statistic: it is over as soon as it is constructed, and the
\* store and the statistics are as they were.
C10_InvalidArgumentHasNoEffect ==
    \A i \in Slots :
        (inv[i].pc # "idle" /\ parseParameters(inv[i].data).kind = "Error")
        => /\ inv[i].pc = "done"
           /\ inv[i].result = "invalid-argument"
           /\ inv[i].previousFine = Null
           /\ store = inv[i].storeBefore
           /\ statistics = inv[i].statisticsBefore

\* C10 witness: a request with an unparseable field was made after an
\* earlier invocation had changed the store.
C10_Witness ==
    \E i \in Slots :
        /\ Done(i)
        /\ parseParameters(inv[i].data).kind = "Error"
        /\ inv[i].result = "invalid-argument"
        /\ store # InitStore

(***************************************************************************)
(* changeFinePayed.                                                        *)
(*                                                                         *)
(* The callable changes the payed state of a stored fine.  Its parameters  *)
(* are clubId, fineId, payedState and fineUpdateProperties.  The whole     *)
(* call is one action: it returns an error, or writes the fine and saves   *)
(* one statistic.                                                          *)
(***************************************************************************)
MaxPayedCalls == 1

\* What a call returns: success, or an error with its code and message.
\* The message of a parsing error is kept as the field it names, and for an
\* enumeration the values it lists.
Success == [code |-> "ok", field |-> "", accepted |-> {}, message |-> ""]

ParseError(field, accepted, message) ==
    [code |-> "invalid-argument", field |-> field, accepted |-> accepted,
     message |-> message]

\* { code: 'unavailable', message: "Couldn't get fine from 'Deleted'." }
FineUnavailable ==
    [code |-> "unavailable", field |-> "", accepted |-> {},
     message |-> "Couldn't get fine from 'Deleted'."]

IsError(value) == "code" \in DOMAIN value /\ value.code # "ok"

\* The values of PayedState.state.
PayedStateValues == {"payed", "settled", "unpayed"}

Undefined == "undefined"
PayDates == {"d1"}

\* The payedState objects of the requests: any state string, with or without
\* payDate and inApp.
RawPayedStates ==
    [state : PayedStateValues \cup {"invalid state"},
     payDate : PayDates \cup {Undefined},
     inApp : {"true", "false", Undefined}]

\* A parser that takes every state other than 'payed' as it comes.
payedStateFromObjectUnchecked(raw) ==
    IF raw.state = "payed"
    THEN IF raw.payDate = Undefined
         THEN ParseError("payDate", {}, "expected iso string")
         ELSE IF raw.inApp = Undefined
         THEN ParseError("inApp", {}, "Expected type 'boolean'")
         ELSE [state |-> "payed", payDate |-> raw.payDate, inApp |-> raw.inApp]
    ELSE [state |-> raw.state, payDate |-> "null", inApp |-> "null"]

\* A parser that keeps whatever payDate and inApp the object carries.
payedStateFromObjectKeepingFields(raw) ==
    IF raw.state \notin PayedStateValues
    THEN ParseError("state", PayedStateValues, "Expected values")
    ELSE IF raw.state = "payed" /\ raw.payDate = Undefined
    THEN ParseError("payDate", {}, "expected iso string")
    ELSE IF raw.state = "payed" /\ raw.inApp = Undefined
    THEN ParseError("inApp", {}, "Expected type 'boolean'")
    ELSE [state |-> raw.state, payDate |-> raw.payDate, inApp |-> raw.inApp]

\* PayedState.fromObject: state is one of the three values; a payed state
\* has a payDate and then an inApp; the other states carry neither.
payedStateFromObject(raw) ==
    IF raw.state \notin PayedStateValues
    THEN ParseError("state", PayedStateValues, "Expected values")
    ELSE IF raw.state = "payed"
    THEN IF raw.payDate = Undefined
         THEN ParseError("payDate", {}, "expected iso string")
         ELSE IF raw.inApp = Undefined
         THEN ParseError("inApp", {}, "Expected type 'boolean'")
         ELSE [state |-> "payed", payDate |-> raw.payDate, inApp |-> raw.inApp]
    ELSE [state |-> raw.state, payDate |-> "null", inApp |-> "null"]

\* The fineUpdateProperties objects of the requests.
RawUpdateProperties ==
    [timestamp : Timestamps \cup {0}, personId : Actors \cup {Undefined}]

\* UpdateProperties.fromObject: personId is a string, then timestamp is a
\* date.  Timestamp 0 stands for a value that is no date.
updatePropertiesFromObject(raw) ==
    IF raw.personId = Undefined
    THEN ParseError("personId", {}, "expected type string")
    ELSE IF raw.timestamp = 0
    THEN ParseError("timestamp", {}, "expected iso string")
    ELSE [timestamp |-> raw.timestamp, actorId |-> raw.personId]

\* An order that parses the payed state before the ids.
PayedStateFirstOrder == <<"payedState", "clubId", "fineId", "fineUpdateProperties">>

\* The fields changeFinePayed parses, in the order it parses them.
PayedParameterOrder == <<"clubId", "fineId", "payedState", "fineUpdateProperties">>

ExpectedType(field) ==
    IF field \in {"clubId", "fineId"} THEN "Expected type 'string'"
    ELSE "Expected type 'object'"

\* The error of parsing one field of the data, or Success.
parsePayedField(data, field) ==
    IF field \in data.missing
    THEN ParseError(field, {}, ExpectedType(field))
    ELSE IF field = "payedState" /\ IsError(payedStateFromObject(data.payedState))
    THEN payedStateFromObject(data.payedState)
    ELSE IF field = "fineUpdateProperties"
              /\ IsError(updatePropertiesFromObject(data.fineUpdateProperties))
    THEN updatePropertiesFromObject(data.fineUpdateProperties)
    ELSE Success

\* The error of the first field, in parsing order, that fails; else Success.
RECURSIVE parsePayedFrom(_, _)
parsePayedFrom(data, k) ==
    IF k > Len(PayedParameterOrder) THEN Success
    ELSE IF IsError(parsePayedField(data, PayedParameterOrder[k]))
    THEN parsePayedField(data, PayedParameterOrder[k])
    ELSE parsePayedFrom(data, k + 1)

parsePayedParameters(data) == parsePayedFrom(data, 1)

\* A stored fine with its payed state, and a stored tombstone.
StoredFine(payedState, timestamp, actorId) ==
    [kind |-> "Active", payedState |-> payedState,
     timestamp |-> timestamp, actorId |-> actorId]

StoredTombstone(timestamp, actorId) ==
    [kind |-> "Tombstone", timestamp |-> timestamp, actorId |-> actorId]

\* payedState.databaseObject of a parsed payed state.
payedStateDatabaseObject(payedState) ==
    [state |-> payedState.state, payDate |-> payedState.payDate,
     inApp |-> payedState.inApp]

UnpayedObject == [state |-> "unpayed", payDate |-> "null", inApp |-> "null"]
PayedObject == [state |-> "payed", payDate |-> "d1", inApp |-> "false"]

\* The request data of changeFinePayed: the fields and the set of fields
\* that are missing.
BasePayedData ==
    [missing |-> {}, privateKey |-> "valid", clubLevel |-> "regular",
     clubId |-> "c1", fineId |-> "f1",
     payedState |-> [state |-> "settled", payDate |-> Undefined, inApp |-> Undefined],
     fineUpdateProperties |-> [timestamp |-> MaxTime, personId |-> "a2"]]

PayedData ==
    {[BasePayedData EXCEPT !.payedState = ps, !.fineUpdateProperties = up] :
        ps \in RawPayedStates, up \in RawUpdateProperties}
    \cup {[BasePayedData EXCEPT !.clubId = c, !.fineId = f] :
            c \in ClubIds, f \in FineIds}
    \cup {[BasePayedData EXCEPT !.missing = m] :
            m \in SUBSET {"clubId", "fineId", "payedState", "fineUpdateProperties"}}
    \cup {[BasePayedData EXCEPT !.privateKey = "wrong"]}

PayedRequests ==
    {[data |-> d, auth |-> TRUE] : d \in PayedData}
        \cup {[data |-> BasePayedData, auth |-> FALSE]}

\* The value at the key path of the fine the data names.
payedFine(st, data) == st[clubPath(data)][data.fineId]

\* The update carries a timestamp newer than that of the stored fine.
payedUpdateIsNewer(st, data) ==
    updatePropertiesFromObject(data.fineUpdateProperties).timestamp
        > payedFine(st, data).timestamp

\* A result that reports only a missing fine as unavailable.
payedResultIgnoringTombstone(st, data, auth) ==
    IF IsError(parsePayedParameters(data)) THEN parsePayedParameters(data)
    ELSE IF ~prerequirementsMet(data, auth)
    THEN [code |-> "permission-denied", field |-> "", accepted |-> {}, message |-> ""]
    ELSE IF payedFine(st, data).kind = "Absent" THEN FineUnavailable
    ELSE Success

\* What the call returns.
payedResult(st, data, auth) ==
    IF IsError(parsePayedParameters(data)) THEN parsePayedParameters(data)
    ELSE IF ~prerequirementsMet(data, auth)
    THEN [code |-> "permission-denied", field |-> "", accepted |-> {}, message |-> ""]
    ELSE IF payedFine(st, data).kind # "Active" THEN FineUnavailable
    ELSE Success

\* The call writes: it returned success and its update is newer.
payedAccepted(st, data, auth) ==
    /\ payedResult(st, data, auth) = Success
    /\ payedUpdateIsNewer(st, data)

\* The fine written by an accepted call.
payedWrite(data) ==
    StoredFine(payedStateDatabaseObject(payedStateFromObject(data.payedState)),
               updatePropertiesFromObject(data.fineUpdateProperties).timestamp,
               updatePropertiesFromObject(data.fineUpdateProperties).actorId)

\* The stored fine as a statistic saves it: with its id.
fineStatistic(id, val) ==
    IF val.kind = "Active"
    THEN [kind |-> "Fine", id |-> id, payedState |-> val.payedState]
    ELSE Null

\* The statistic saved by an accepted call.
payedStatistic(st, data) ==
    [name |-> "changeFinePayed",
     previousFine |-> fineStatistic(data.fineId, payedFine(st, data)),
     changedState |-> payedStateDatabaseObject(payedStateFromObject(data.payedState))]

\* One call of changeFinePayed.
changeFinePayed(data, auth) ==
    /\ calls < MaxPayedCalls
    /\ calls' = calls + 1
    /\ outcome' = [kind |-> "changeFinePayed", data |-> data, auth |-> auth,
                   result |-> payedResult(store, data, auth),
                   storeBefore |-> store, statisticsBefore |-> statistics]
    /\ IF payedAccepted(store, data, auth)
       THEN /\ store' = [store EXCEPT ![clubPath(data)][data.fineId] = payedWrite(data)]
            /\ statistics' = pushStatistic(statistics, clubPath(data),
                                           payedStatistic(store, data))
       ELSE UNCHANGED <<store, statistics>>
    /\ UNCHANGED <<inv, last, clubs, generators>>

\* What the key path clubs/c1/fines/f1 holds before the call.
PayedSeeds ==
    {Absent}
        \cup {StoredFine(ps, t, "a1") : ps \in {UnpayedObject, PayedObject},
                                        t \in Timestamps}
        \cup {StoredTombstone(t, "a1") : t \in Timestamps}

InitPayed ==
    /\ \E seed \in PayedSeeds :
          store = [p \in ClubPaths |->
                     [f \in FineIds |->
                         IF p = <<"clubs", "c1">> /\ f = "f1" THEN seed
                         ELSE IF p = <<"clubs", "c2">> /\ f = "f1"
                         THEN StoredFine(PayedObject, 1, "a2")
                         ELSE Absent]]
    /\ statistics = InitStatistics
    /\ inv = [i \in Slots |-> Idle]
    /\ last = Idle
    /\ calls = 0
    /\ outcome = NoOutcome
    /\ clubs = NoClubs
    /\ generators = NoGenerators

NextPayed == \E r \in PayedRequests : changeFinePayed(r.data, r.auth)

SpecPayed == InitPayed /\ [][NextPayed]_vars

(***************************************************************************)
(* Vocabulary of the changeFinePayed properties.                           *)
(***************************************************************************)
\* A changeFinePayed call has returned.
PayedCalled == outcome.kind = "changeFinePayed"

\* Its parameters parsed and the prerequisite check passed.
PayedReachedStore ==
    /\ PayedCalled
    /\ ~IsError(parsePayedParameters(outcome.data))
    /\ prerequirementsMet(outcome.data, outcome.auth)

\* The value at the fine's key path before the call, and now.
PayedBefore == payedFine(outcome.storeBefore, outcome.data)
PayedAfter == payedFine(store, outcome.data)

(***************************************************************************)
(* C11, C12.  changeFinePayed on a deleted fine.                           *)
(***************************************************************************)
\* C11: changeFinePayed on a fine whose key path holds a Tombstone fails with
\* code 'unavailable' and message "Couldn't get fine from 'Deleted'.", also
\* when its timestamp is newer than the tombstone's; the tombstone stays as
\* it was and no statistic is saved.
C11_TombstoneIsUnavailable ==
    (PayedReachedStore /\ PayedBefore.kind = "Tombstone")
    => /\ outcome.result.code = "unavailable"
       /\ outcome.result.message = "Couldn't get fine from 'Deleted'."
       /\ store = outcome.storeBefore
       /\ statistics = outcome.statisticsBefore

\* C11 witness: a call with a newer timestamp than the tombstone's returned.
C11_Witness ==
    /\ PayedReachedStore
    /\ PayedBefore.kind = "Tombstone"
    /\ outcome.data.fineUpdateProperties.timestamp > PayedBefore.timestamp

\* C12: what an operation that needs an Active fine reports for a key path
\* holding a Tombstone differs from what it reports for a key path that
\* never held anything.
C12_TombstoneDistinctFromAbsent ==
    (PayedReachedStore /\ PayedBefore.kind = "Tombstone")
    => outcome.result #
          payedResult([outcome.storeBefore EXCEPT
                          ![clubPath(outcome.data)][outcome.data.fineId] = Absent],
                      outcome.data, outcome.auth)

(***************************************************************************)
(* C13, C14, C15.  Validation of the changeFinePayed parameters.           *)
(***************************************************************************)
\* The fields of the data that do not parse, as positions in
\* clubId, fineId, payedState, fineUpdateProperties.
FailingFields(data) ==
    {k \in 1..4 :
        \/ <<"clubId", "fineId", "payedState", "fineUpdateProperties">>[k] \in data.missing
        \/ k = 3 /\ IsError(payedStateFromObject(data.payedState))
        \/ k = 4 /\ IsError(updatePropertiesFromObject(data.fineUpdateProperties))}

FirstFailing(data) ==
    CHOOSE k \in FailingFields(data) : \A j \in FailingFields(data) : k <= j

PayedStateParsed ==
    /\ PayedCalled
    /\ outcome.data.missing \cap {"clubId", "fineId", "payedState"} = {}

\* C14: a payed state parses only if its state is 'payed', 'settled' or
\* 'unpayed'; for any other state the call fails with 'invalid-argument' and
\* an error that lists these three values.
C14_StateIsOneOfThree ==
    PayedStateParsed
    => /\ (outcome.result = Success
             => outcome.data.payedState.state \in {"payed", "settled", "unpayed"})
       /\ (outcome.data.payedState.state \notin {"payed", "settled", "unpayed"}
             => /\ outcome.result.code = "invalid-argument"
                /\ outcome.result.field = "state"
                /\ outcome.result.accepted = {"payed", "settled", "unpayed"})

\* C14 witness: a call with another state has returned.
C14_Witness ==
    /\ PayedStateParsed
    /\ outcome.data.payedState.state = "invalid state"
    /\ outcome.result.code = "invalid-argument"

\* The half of C15 on parsing: a payed state 'payed' is accepted only with
\* both payDate and inApp, and payDate is checked before inApp.
PayedNeedsDateAndInApp ==
    (PayedStateParsed /\ outcome.data.payedState.state = "payed")
    => /\ (outcome.result = Success
             => /\ outcome.data.payedState.payDate # Undefined
                /\ outcome.data.payedState.inApp # Undefined)
       /\ (outcome.data.payedState.payDate = Undefined
             => outcome.result.code = "invalid-argument"
                   /\ outcome.result.field = "payDate")
       /\ (outcome.data.payedState.payDate # Undefined
               /\ outcome.data.payedState.inApp = Undefined
             => outcome.result.code = "invalid-argument"
                   /\ outcome.result.field = "inApp")

MaxClubCalls == 3

ClubIdentifiers == {"identifier1", "identifier2"}
ClubNames == {"test club of new club test", "test clubasdf of new club test"}

\* ClubProperties and PersonPropertiesWithUserId as the requests carry them.
ClubPropertiesObjects == [id : ClubIds, identifier : ClubIdentifiers, name : ClubNames]
PersonPropertiesObjects == [id : Actors]

BaseClubData ==
    [missing |-> {}, privateKey |-> "valid",
     clubProperties |-> [id |-> "c1", identifier |-> "identifier1",
                         name |-> "test club of new club test"],
     personProperties |-> [id |-> "a1"]]

ClubData ==
    {[BaseClubData EXCEPT !.clubProperties = c, !.personProperties = q] :
        c \in ClubPropertiesObjects, q \in PersonPropertiesObjects}
    \cup {[BaseClubData EXCEPT !.missing = {f}] :
            f \in {"clubProperties", "personProperties"}}
    \cup {[BaseClubData EXCEPT !.privateKey = "wrong"]}

ClubRequests ==
    {[data |-> d, auth |-> TRUE] : d \in ClubData}
    \cup {[data |-> BaseClubData, auth |-> FALSE]}

\* The club as it is stored under its club id.
StoredClub(data) ==
    [kind |-> "Club",
     identifier |-> data.clubProperties.identifier,
     name |-> data.clubProperties.name,
     persons |-> {data.personProperties.id}]

IdentifierExists ==
    [code |-> "already-exists", field |-> "", accepted |-> {},
     message |-> "Club identifier already exists"]

PermissionDenied ==
    [code |-> "permission-denied", field |-> "", accepted |-> {}, message |-> ""]

\* No stored club is asked whether it has the identifier.
identifierNeverExists(cl, data) == FALSE

\* Some stored club has the identifier of the request.
identifierExists(cl, data) ==
    \E c \in ClubIds :
        cl[c] # NoClub /\ cl[c].identifier = data.clubProperties.identifier

\* The club id is taken to be free.
clubNeverExists(cl, data) == FALSE

\* A club is stored under the club id of the request.
clubExists(cl, data) == cl[data.clubProperties.id] # NoClub

\* What the call returns.
newClubResult(cl, data, auth) ==
    IF data.missing # {}
    THEN ParseError(CHOOSE f \in data.missing : TRUE, {}, "Expected type 'object'")
    ELSE IF ~prerequirementsMet(data, auth) THEN PermissionDenied
    ELSE IF identifierExists(cl, data) THEN IdentifierExists
    ELSE Success

newClub(data, auth) ==
    /\ calls < MaxClubCalls
    /\ calls' = calls + 1
    /\ outcome' = [kind |-> "newClub", data |-> data, auth |-> auth,
                   result |-> newClubResult(clubs, data, auth),
                   clubsBefore |-> clubs]
    /\ clubs' = IF newClubResult(clubs, data, auth) = Success
                     /\ ~clubExists(clubs, data)
                THEN [clubs EXCEPT ![data.clubProperties.id] = StoredClub(data)]
                ELSE clubs
    /\ UNCHANGED <<store, statistics, inv, last, generators>>

\* deleteTestClubs has emptied the store.
InitClubs ==
    /\ store = InitStore
    /\ statistics = InitStatistics
    /\ inv = [i \in Slots |-> Idle]
    /\ last = Idle
    /\ calls = 0
    /\ outcome = NoOutcome
    /\ clubs = NoClubs
    /\ generators = NoGenerators

NextClubs == \E r \in ClubRequests : newClub(r.data, r.auth)

SpecClubs == InitClubs /\ [][NextClubs]_vars

\* A newClub call has returned after its parameters parsed and the
\* prerequisite check passed.
ClubReachedStore ==
    /\ outcome.kind = "newClub"
    /\ outcome.data.missing = {}
    /\ prerequirementsMet(outcome.data, outcome.auth)

\* The identifier of the request was used by a club under another club id.
UsedUnderOtherId ==
    \E c \in ClubIds \ {outcome.data.clubProperties.id} :
        /\ outcome.clubsBefore[c] # NoClub
        /\ outcome.clubsBefore[c].identifier = outcome.data.clubProperties.identifier

\* The identifier of the request was used by no club.
UsedByNone ==
    \A c \in ClubIds :
        outcome.clubsBefore[c] # NoClub
        => outcome.clubsBefore[c].identifier # outcome.data.clubProperties.identifier

\* C16: newClub with an identifier that a club under another club id
\* already uses fails with 'already-exists', message 'Club identifier
\* already exists', and creates no club; no two stored clubs share an
\* identifier.
C16_IdentifierIsUnique ==
    /\ (ClubReachedStore /\ UsedUnderOtherId)
       => /\ outcome.result.code = "already-exists"
          /\ outcome.result.message = "Club identifier already exists"
          /\ clubs = outcome.clubsBefore
    /\ \A c, d \in ClubIds :
          (c # d /\ clubs[c] # NoClub /\ clubs[d] # NoClub)
          => clubs[c].identifier # clubs[d].identifier

\* C16 witness: a call with a used identifier and a free club id returned
\* while two clubs are stored.
C16_Witness ==
    /\ ClubReachedStore
    /\ UsedUnderOtherId
    /\ outcome.clubsBefore[outcome.data.clubProperties.id] = NoClub

\* C17: newClub with the club id of a stored club and an identifier no club
\* uses returns success and leaves the stored club, and every other club,
\* as it was.
C17_ExistingClubKept ==
    (ClubReachedStore /\ UsedByNone
        /\ outcome.clubsBefore[outcome.data.clubProperties.id] # NoClub)
    => /\ outcome.result = Success
       /\ clubs = outcome.clubsBefore

\* C17 witness: such a call carried another name than the stored club has.
C17_Witness ==
    /\ ClubReachedStore
    /\ UsedByNone
    /\ outcome.clubsBefore[outcome.data.clubProperties.id] # NoClub
    /\ outcome.clubsBefore[outcome.data.clubProperties.id].name
          # outcome.data.clubProperties.name
    /\ outcome.result = Success

(***************************************************************************)
(* guid and Person: identifier strings are parsed to a 128-bit value and   *)
(* written back as a string.                                               *)
(***************************************************************************)
\* The hexadecimal digits by value, as written and as also accepted.
UpperDigits ==
    <<"0", "1", "2", "3", "4", "5", "6", "7", "8", "9", "A", "B", "C", "D", "E", "F">>
LowerDigits ==
    <<"0", "1", "2", "3", "4", "5", "6", "7", "8", "9", "a", "b", "c", "d", "e", "f">>

GuidLength == 36
HyphenPositions == {9, 14, 19, 24}

\* The value of a hexadecimal digit in either case; -1 for any other character.
hexValue(c) ==
    IF \E k \in 1..16 : UpperDigits[k] = c
    THEN (CHOOSE k \in 1..16 : UpperDigits[k] = c) - 1
    ELSE IF \E k \in 1..16 : LowerDigits[k] = c
    THEN (CHOOSE k \in 1..16 : LowerDigits[k] = c) - 1
    ELSE -1

\* ^[0-9a-fA-F]{8}-[0-9a-fA-F]{4}-[0-9a-fA-F]{4}-[0-9a-fA-F]{4}-[0-9a-fA-F]{12}$
matchesGuidFormat(s) ==
    /\ Len(s) = GuidLength
    /\ \A k \in 1..GuidLength :
          IF k \in HyphenPositions THEN s[k] = "-" ELSE hexValue(s[k]) >= 0

InvalidGuid ==
    [kind |-> "Error", code |-> "invalid-argument", field |-> "id"]

\* guid.fromString: the 32 hexadecimal digits of the string as values.
guid_fromString(s) ==
    IF ~matchesGuidFormat(s) THEN InvalidGuid
    ELSE [kind |-> "guid",
          value |-> [k \in 1..32 |->
                        hexValue(s[k + Cardinality({h \in HyphenPositions :
                                                       h - Cardinality({g \in HyphenPositions : g < h}) <= k})])]]

\* The digits of a guid grouped 8-4-4-4-12, written with the given digits.
formatGuid(id, digits) ==
    [k \in 1..GuidLength |->
        IF k \in HyphenPositions THEN "-"
        ELSE digits[id.value[k - Cardinality({h \in HyphenPositions : h < k})] + 1]]

\* guid.guidString
guidString(id) == formatGuid(id, UpperDigits)

\* String.toUpperCase on the characters of an identifier string.
toUpperCase(s) ==
    [k \in 1..Len(s) |->
        IF \E j \in 11..16 : LowerDigits[j] = s[k]
        THEN UpperDigits[CHOOSE j \in 11..16 : LowerDigits[j] = s[k]]
        ELSE s[k]]

\* The identifier strings of the requests: an identifier in lower and in
\* upper case with the characters at three positions replaced, and the
\* same without its last character.
LowerGuid ==
    <<"6", "3", "7", "d", "6", "1", "8", "7", "-", "6", "8", "d", "2", "-",
      "4", "0", "0", "0", "-", "9", "c", "b", "8", "-",
      "7", "d", "f", "c", "3", "8", "7", "7", "d", "5", "b", "a">>
GuidCharacters == {"0", "a", "F", "g", "-"}
VariedPositions == <<1, 12, 36>>

GuidStrings ==
    LET varied(base) ==
            {[base EXCEPT ![VariedPositions[1]] = a,
                          ![VariedPositions[2]] = b,
                          ![VariedPositions[3]] = c] :
                a \in GuidCharacters, b \in GuidCharacters, c \in GuidCharacters}
    IN varied(LowerGuid) \cup varied(toUpperCase(LowerGuid))
       \cup {SubSeq(LowerGuid, 1, GuidLength - 1)}

\* The objects Person.fromObject is given.
PersonValues ==
    [idType : {"string"}, id : GuidStrings, deleted : {"undefined"}, name : {"object"}]
    \cup [idType : {"string", "undefined"},
          id : {LowerGuid, SubSeq(LowerGuid, 1, GuidLength - 1)},
          deleted : {"undefined", "true", "false", "string"},
          name : {"object", "undefined"}]

PersonError(field) ==
    [kind |-> "Error", code |-> "invalid-argument", field |-> field]

\* A Person.fromObject that looks at the name before the deleted field.
Person_fromObjectNameFirst(value) ==
    IF value.idType # "string" THEN PersonError("id")
    ELSE IF guid_fromString(value.id) = InvalidGuid THEN InvalidGuid
    ELSE IF value.name # "object" THEN PersonError("name")
    ELSE IF value.deleted # "undefined"
    THEN IF value.deleted # "true" THEN PersonError("deleted")
         ELSE [kind |-> "Deleted", id |-> guid_fromString(value.id)]
    ELSE [kind |-> "Person", id |-> guid_fromString(value.id), name |-> "name"]

\* Person.fromObject.  The fields of the value are given by their typeof;
\* deleted is "true" or "false" for the booleans.
Person_fromObject(value) ==
    IF value.idType # "string" THEN PersonError("id")
    ELSE IF guid_fromString(value.id) = InvalidGuid THEN InvalidGuid
    ELSE IF value.deleted # "undefined"
    THEN IF value.deleted # "true" THEN PersonError("deleted")
         ELSE [kind |-> "Deleted", id |-> guid_fromString(value.id)]
    ELSE IF value.name # "object" THEN PersonError("name")
    ELSE [kind |-> "Person", id |-> guid_fromString(value.id), name |-> "name"]

\* The values Person.fromValue is given: null, undefined, a string, a
\* number, a boolean, or an object.
ValueTypes == {"null", "undefined", "string", "number", "boolean"}
FromValueInputs ==
    {[type |-> t, object |-> CHOOSE v \in PersonValues : v.id = LowerGuid] :
        t \in ValueTypes}
    \cup {[type |-> "object", object |-> v] : v \in {w \in PersonValues : w.id = LowerGuid}}

\* typeof value
typeof(value) == IF value.type = "null" THEN "object" ELSE value.type

\* Reading a property of null throws a TypeError.
TypeError == [kind |-> "Error", code |-> "TypeError", field |-> "id"]

\* Person.fromValue; for null, Person.fromObject reads value.id of null.
Person_fromValue(value) ==
    IF typeof(value) # "object" THEN PersonError("value")
    ELSE IF value.type = "null" THEN TypeError
    ELSE Person_fromObject(value.object)

\* A database object that holds the id in lower case.
Person_databaseObjectLowerCase(person) ==
    [id |-> formatGuid(person.id, LowerDigits), name |-> person.name]

\* Person.databaseObject
Person_databaseObject(person) ==
    [id |-> guidString(person.id), name |-> person.name]

\* Person.statistic and Person.Statistic.databaseObject
Person_statistic(person) == [id |-> person.id, name |-> person.name]
Statistic_databaseObject(statistic) ==
    [id |-> guidString(statistic.id), name |-> statistic.name]

\* guid.fromString(s).guidString
parseAndFormat(s) ==
    /\ outcome' = [kind |-> "guid", input |-> s,
                   parsed |-> guid_fromString(s),
                   formatted |-> IF guid_fromString(s) = InvalidGuid THEN <<>>
                                 ELSE guidString(guid_fromString(s))]
    /\ UNCHANGED <<store, statistics, inv, last, calls, clubs, generators>>

\* Person.fromObject(value), written to the store and to a statistic.
writePerson(value) ==
    /\ outcome' =
          LET person == Person_fromObject(value)
          IN [kind |-> "person", input |-> value.id, value |-> value,
              parsed |-> person,
              stored |-> IF person.kind = "Person"
                         THEN Person_databaseObject(person)
                         ELSE [id |-> <<>>, name |-> ""],
              statistic |-> IF person.kind = "Person"
                            THEN Statistic_databaseObject(Person_statistic(person))
                            ELSE [id |-> <<>>, name |-> ""]]
    /\ UNCHANGED <<store, statistics, inv, last, calls, clubs, generators>>

\* Person.fromValue(value)
parsePersonValue(value) ==
    /\ outcome' = [kind |-> "personValue", value |-> value,
                   parsed |-> Person_fromValue(value)]
    /\ UNCHANGED <<store, statistics, inv, last, calls, clubs, generators>>

InitGuid ==
    /\ store = InitStore
    /\ statistics = InitStatistics
    /\ inv = [i \in Slots |-> Idle]
    /\ last = Idle
    /\ calls = 0
    /\ outcome = NoOutcome
    /\ clubs = NoClubs
    /\ generators = NoGenerators

NextGuid ==
    \/ \E s \in GuidStrings : parseAndFormat(s)
    \/ \E value \in PersonValues : writePerson(value)
    \/ \E value \in FromValueInputs : parsePersonValue(value)

SpecGuid == InitGuid /\ [][NextGuid]_vars

\* The string is in canonical form: grouped 8-4-4-4-12 with hyphens, every
\* digit one of 0-9, A-F.
Canonical(s) ==
    /\ Len(s) = 36
    /\ \A k \in 1..36 :
          IF k \in {9, 14, 19, 24} THEN s[k] = "-"
          ELSE \E j \in 1..16 : UpperDigits[j] = s[k]

\* C18: for every validly formatted identifier string s, in any case,
\* formatting the parsed identifier gives the uppercase form of s, and for a
\* canonical s gives s itself; the id written to the store and to a statistic
\* is in uppercase canonical form also when the request had it in lower case.
C18_FormatOfParseIsCanonical ==
    /\ (outcome.kind = "guid" /\ matchesGuidFormat(outcome.input))
       => /\ outcome.formatted = toUpperCase(outcome.input)
          /\ Canonical(outcome.formatted)
          /\ (Canonical(outcome.input) => outcome.formatted = outcome.input)
    /\ (outcome.kind = "person" /\ outcome.parsed.kind = "Person")
       => /\ Canonical(outcome.stored.id)
          /\ outcome.stored.id = toUpperCase(outcome.input)
          /\ outcome.statistic.id = outcome.stored.id

\* C18 witness: a person whose id the request had in lower case was written.
C18_Witness ==
    /\ outcome.kind = "person"
    /\ outcome.parsed.kind = "Person"
    /\ outcome.input # toUpperCase(outcome.input)
    /\ outcome.stored.id # outcome.input

(***************************************************************************)
(* PseudoRandom.  A state component is a multiple of 2^-32 below 1; it is  *)
(* held as the four bytes of that multiple, lowest byte first.             *)
(***************************************************************************)
MaxRandomCalls == 3

Seeds == {"", "a", "seed-X"}

\* (n >>> 0) after each of the six calls of mash in the constructor: three
\* on " ", three on the seed, each continuing from the n of the one before.
mash(seed) ==
    <<<<210, 31, 3, 221>>, <<93, 62, 115, 38>>, <<67, 20, 238, 234>>>>
    \o (CASE seed = "" ->
               <<<<67, 20, 238, 234>>, <<67, 20, 238, 234>>, <<67, 20, 238, 234>>>>
          [] seed = "a" ->
               <<<<21, 150, 248, 52>>, <<184, 121, 109, 72>>, <<38, 160, 213, 232>>>>
          [] seed = "seed-X" ->
               <<<<187, 80, 105, 48>>, <<143, 82, 191, 124>>, <<156, 20, 32, 137>>>>)

\* mashResult(a) - mashResult(b), plus 1 if that is negative.
RECURSIVE borrow(_, _, _)
borrow(a, b, k) ==
    IF k = 0 THEN 0
    ELSE IF a[k] - b[k] - borrow(a, b, k - 1) < 0 THEN 1 ELSE 0

mashResultDifference(a, b) ==
    [k \in 1..4 |-> (256 + a[k] - b[k] - borrow(a, b, k - 1)) % 256]

\* new PseudoRandom(seed): this.state
constructedState(seed) ==
    [state0 |-> mashResultDifference(mash(seed)[1], mash(seed)[4]),
     state1 |-> mashResultDifference(mash(seed)[2], mash(seed)[5]),
     state2 |-> mashResultDifference(mash(seed)[3], mash(seed)[6]),
     constant |-> 1]

\* t = 2091639 * state0 + constant * 2^-32, byte by byte: what is carried
\* out of the lowest k bytes.
RECURSIVE carry(_, _)
carry(state, k) ==
    IF k = 0 THEN state.constant
    ELSE (2091639 * state.state0[k] + carry(state, k - 1)) \div 256

\* A random() whose constant is one counter shared by all generators: the
\* number of random() calls made on all of them together.
randomWithSharedConstant(state) ==
    LET RECURSIVE sum(_)
        sum(G) == IF G = {} THEN 0
                  ELSE LET g == CHOOSE x \in G : TRUE
                       IN (IF generators[g] = NoGenerator THEN 0
                           ELSE Len(generators[g].outputs)) + sum(G \ {g})
        shared == [state EXCEPT !.constant = sum(Generators)]
    IN [state0 |-> state.state1,
        state1 |-> state.state2,
        state2 |-> [k \in 1..4 |->
                      (2091639 * shared.state0[k] + carry(shared, k - 1)) % 256],
        constant |-> carry(shared, 4)]

\* random(): this.state after the call; the call returns its state2.
random(state) ==
    [state0 |-> state.state1,
     state1 |-> state.state2,
     state2 |-> [k \in 1..4 |->
                   (2091639 * state.state0[k] + carry(state, k - 1)) % 256],
     constant |-> carry(state, 4)]

\* new PseudoRandom(seed) as generator g.
newPseudoRandom(g, seed) ==
    /\ generators[g] = NoGenerator
    /\ generators' = [generators EXCEPT ![g] =
                        [kind |-> "PseudoRandom", seed |-> seed,
                         state |-> constructedState(seed), outputs |-> <<>>]]
    /\ UNCHANGED <<store, statistics, inv, last, calls, outcome, clubs>>

\* generator g: random()
callRandom(g) ==
    /\ generators[g] # NoGenerator
    /\ Len(generators[g].outputs) < MaxRandomCalls
    /\ generators' = [generators EXCEPT ![g] =
                        [@ EXCEPT !.state = random(@),
                                  !.outputs = Append(@, random(generators[g].state).state2)]]
    /\ UNCHANGED <<store, statistics, inv, last, calls, outcome, clubs>>

InitRandom ==
    /\ store = InitStore
    /\ statistics = InitStatistics
    /\ inv = [i \in Slots |-> Idle]
    /\ last = Idle
    /\ calls = 0
    /\ outcome = NoOutcome
    /\ clubs = NoClubs
    /\ generators = NoGenerators

NextRandom ==
    \E g \in Generators :
        \/ \E seed \in Seeds : newPseudoRandom(g, seed)
        \/ callRandom(g)

SpecRandom == InitRandom /\ [][NextRandom]_vars

\* C19: two PseudoRandom generators constructed with the same seed return
\* the same value at every call index of random() that both have reached,
\* whatever the order in which the calls on the two were made.
C19_SameSeedSameSequence ==
    \A g, h \in Generators :
        (generators[g] # NoGenerator /\ generators[h] # NoGenerator
            /\ generators[g].seed = generators[h].seed)
        => \A n \in 1..MaxRandomCalls + 1 :
              (n <= Len(generators[g].outputs) /\ n <= Len(generators[h].outputs))
              => generators[g].outputs[n] = generators[h].outputs[n]

\* C19 witness: two generators with the same seed have each returned two
\* values, and the values are not all the same.
C19_Witness ==
    /\ generators[1] # NoGenerator
    /\ generators[2] # NoGenerator
    /\ generators[1].seed = generators[2].seed
    /\ Len(generators[1].outputs) >= 2
    /\ Len(generators[2].outputs) >= 2
    /\ generators[1].outputs[1] # generators[1].outputs[2]

(***************************************************************************)
(* Concurrent invocations of changeFine: the steps of two invocations      *)
(* interleave at every await.                                              *)
(***************************************************************************)
\* The requests of the concurrent invocations: well-formed changes of the
\* fines of one club by a signed-in caller.
ConcurrentRequests ==
    {r \in Requests : r.auth /\ r.data \in ValidData /\ r.data.clubId = "c1"}

\* One step of the invocation in slot i; each slot runs one invocation.
StepConcurrent(i) ==
    \/ \E r \in ConcurrentRequests :
          inv[i].pc = "idle" /\ constructor(i, r.data, r.auth)
    \/ checkPrerequirements(i)
    \/ getPreviousFine(i)
    \/ deleteItem(i)
    \/ remove(i)
    \/ updateItem(i)
    \/ saveStatistic(i)

NextConcurrent == \E i \in Slots : StepConcurrent(i)

SpecConcurrent == Init /\ [][NextConcurrent]_vars

\* C20: the read-decide-write sequence of an invocation is atomic per key
\* path: no other invocation writes to the key path between an invocation's
\* read of the current value and its own write.
C20_ReadDecideWriteIsAtomic ==
    \A i \in Slots : inv[i].otherWrite # "beforeOwnWrite"

(***************************************************************************)
(* Failure of saveStatistic: the await at the end of executeFunction      *)
(* throws.                                                                 *)
(***************************************************************************)
\* An invocation that saves its statistic again after the failure.
statisticFailureRetried(invocation) ==
    [invocation EXCEPT !.result = "internal"]

\* The invocation after saveStatistic threw: it is over, with 'internal'.
statisticFailure(invocation) ==
    [invocation EXCEPT !.pc = "done", !.result = "internal"]

\* executeFunction: await saveStatistic(...) throws.
saveStatisticFails(i) ==
    /\ inv[i].pc = "saveStatistic"
    /\ inv' = [inv EXCEPT ![i] = statisticFailure(@)]
    /\ UNCHANGED <<store, statistics, last, calls>>
    /\ UNCHANGED otherVars

\* One step of the invocation in slot i, where saving the statistic may fail.
StepFailing(i) ==
    \/ \E r \in ConcurrentRequests : constructor(i, r.data, r.auth)
    \/ checkPrerequirements(i)
    \/ getPreviousFine(i)
    \/ deleteItem(i)
    \/ remove(i)
    \/ updateItem(i)
    \/ saveStatistic(i)
    \/ saveStatisticFails(i)

NextFailing == \E i \in SeqSlots : StepFailing(i)

SpecFailing == Init /\ [][NextFailing]_vars

\* C21: if saving the statistic fails after the write of the fine, the
\* invocation is over with code 'internal', the value written stays at the
\* fine's key path, and no statistic of this invocation is in the log:
\* neither the write nor the saving is made again.
C21_StatisticFailureIsInternal ==
    \A i \in Slots :
        inv[i].result = "internal"
        => /\ Done(i)
           /\ statistics = inv[i].statisticsBefore
           /\ After(i) = IF inv[i].parameters.changeType = "update"
                         THEN objectWithoutId(inv[i].parameters.fine)
                         ELSE Absent

\* C21 witness: saving the statistic failed after a write that changed the
\* stored fine.
C21_Witness ==
    \E i \in Slots :
        /\ Done(i)
        /\ inv[i].result = "internal"
        /\ After(i) # Before(i)

(***************************************************************************)
(* C22.  The prerequisite check comes before any store access.             *)
(***************************************************************************)
\* The invocation in slot i is past its prerequisite check, which fails.
PrerequirementsFailed(i) ==
    /\ Parsed(i)
    /\ inv[i].pc # "checkPrerequirements"
    /\ ~(inv[i].parameters.privateKey = "valid" /\ inv[i].auth)

\* C22: when the prerequisite check (private key and authentication) of a
\* changeFine invocation fails, the invocation is over with code
\* 'permission-denied'; the fine's key path has not been read, and the store
\* and the statistics are as they were.
C22_PermissionDeniedBeforeStoreAccess ==
    \A i \in Slots :
        PrerequirementsFailed(i)
        => /\ Done(i)
           /\ inv[i].result = "permission-denied"
           /\ inv[i].previousFine = Null
           /\ inv[i].changedFine = Null
           /\ store = inv[i].storeBefore
           /\ statistics = inv[i].statisticsBefore

\* C22 witness: an invocation with a wrong private key, or one without
\* authentication, was refused after an earlier invocation changed the store.
C22_Witness ==
    \E i \in Slots :
        /\ PrerequirementsFailed(i)
        /\ inv[i].result = "permission-denied"
        /\ store # InitStore

(***************************************************************************)
(* C23.  The statistics of a club are a log.                               *)
(***************************************************************************)
\* C23: the statistics log is append-only: no step modifies or removes a
\* statistic once saved, and a new statistic is added under a key of its
\* own, after the earlier ones, also when it is about the same fine.
C23_StatisticsAppendOnly ==
    [][\A p \in ClubPaths :
          /\ Len(statistics'[p]) >= Len(statistics[p])
          /\ SubSeq(statistics'[p], 1, Len(statistics[p])) = statistics[p]]_vars

\* C23 witness: the log of a club holds two statistics about the same fine.
C23_Witness ==
    \E p \in ClubPaths :
        /\ Len(statistics[p]) >= 2
        /\ statistics[p][1].changedFine.id = statistics[p][2].changedFine.id

(***************************************************************************)
(* C24.  Tombstones and their ordering metadata.                           *)
(***************************************************************************)
\* C24: every tombstone the system accepts by parsing an object marked
\* deleted carries the ordering metadata of the deletion: a timestamp and
\* an actor id.
C24_TombstoneCarriesMetadata ==
    (outcome.kind = "person" /\ outcome.parsed.kind = "Deleted")
    => {"timestamp", "actorId"} \subseteq DOMAIN outcome.parsed

(***************************************************************************)
(* C25.  Deleting twice.                                                   *)
(***************************************************************************)
\* The invocation in slot i is a 'delete' that passed the prerequisite check
\* and has returned.
DeleteReturned(i) ==
    /\ Done(i)
    /\ Parsed(i)
    /\ inv[i].parameters.changeType = "delete"
    /\ inv[i].parameters.privateKey = "valid"
    /\ inv[i].auth

C26_IdThenDeletedThenName ==
    outcome.kind = "person"
    => LET value == outcome.value
           parsed == outcome.parsed
       IN IF value.idType # "string" \/ ~matchesGuidFormat(value.id)
          THEN parsed.kind = "Error" /\ parsed.code = "invalid-argument"
                  /\ parsed.field = "id"
          ELSE /\ parsed.kind = "Deleted" <=> value.deleted = "true"
               /\ value.deleted \in {"false", "string"}
                     => parsed.kind = "Error" /\ parsed.code = "invalid-argument"
                           /\ parsed.field = "deleted"
               /\ parsed.kind = "Person"
                     <=> value.deleted = "undefined" /\ value.name = "object"
               /\ (value.deleted = "undefined" /\ value.name # "object")
                     => parsed.kind = "Error" /\ parsed.code = "invalid-argument"
                           /\ parsed.field = "name"

\* C26 witness: an object with deleted true and without a name was parsed
\* to Deleted(id).
C26_Witness ==
    /\ outcome.kind = "person"
    /\ outcome.value.deleted = "true"
    /\ outcome.value.name = "undefined"
    /\ outcome.parsed.kind = "Deleted"

\* C28: for every value that is not an object, null and undefined included,
\* and for every object that is not a well-formed person, Person.fromValue
\* fails with 'invalid-argument' and with no other failure.
C28_FromValueFailsWithInvalidArgument ==
    (outcome.kind = "personValue"
        /\ \/ outcome.value.type # "object"
           \/ outcome.value.object.idType # "string"
           \/ outcome.value.object.deleted \in {"false", "string"}
           \/ (outcome.value.object.deleted = "undefined"
                  /\ outcome.value.object.name # "object"))
    => /\ outcome.parsed.kind = "Error"
       /\ outcome.parsed.code = "invalid-argument"

(***************************************************************************)
(* C27.  What a changeFine invocation leaves alone.                        *)
(***************************************************************************)
\* C27: a changeFine invocation for fine f of club c writes only the key
\* path <club c>/fines/<f> and the statistics of club c: every other fine of
\* the club, every fine and statistic of another club and every record that
\* is not a fine is as it was before the invocation, for 'update' and for
\* 'delete'.
C27_OnlyTheFineAndItsStatistics ==
    \A i \in Slots :
        Parsed(i)
        => /\ \A p \in ClubPaths, f \in FineIds :
                 (p # clubPath(inv[i].parameters) \/ f # inv[i].parameters.fine.id)
                 => store[p][f] = inv[i].storeBefore[p][f]
           /\ \A p \in ClubPaths :
                 p # clubPath(inv[i].parameters)
                 => statistics[p] = inv[i].statisticsBefore[p]
           /\ clubs = NoClubs
           /\ outcome = NoOutcome

\* C27 witness: an invocation changed its fine while another fine is stored.
C27_Witness ==
    \E i \in Slots :
        /\ Done(i)
        /\ Parsed(i)
        /\ inv[i].result = "success"
        /\ After(i) # Before(i)
        /\ \E p \in ClubPaths, f \in FineIds :
              /\ (p # clubPath(inv[i].parameters) \/ f # inv[i].parameters.fine.id)
              /\ store[p][f] # Absent

====
